---- MODULE Spec2Model ----
(***************************************************************************)
(* Model of Sliding_puzzle.py: a sliding puzzle held as a flat string of   *)
(* N*N symbols (digits, capital letters, one hyphen for the empty spot),   *)
(* the five functions over it, and the interactive loop play_puzzle.       *)
(* A Python str is modelled as a sequence of one-character strings; Python *)
(* indices are kept zero-based, so character i of the str is puzzle[i+1].  *)
(***************************************************************************)
EXTENDS Integers, Sequences, FiniteSets, TLC

VARIABLES
    puzzle,        \* the puzzle the caller currently holds
    initial,       \* the puzzle the caller started with
    tile_to_move,  \* the tile named in the last call, or typed last
    moves,         \* the counter of play_puzzle
    pc,            \* where the caller or play_puzzle stands
    op,            \* the function called last
    outcome,       \* "return", or the exception the call raised
    verdict,       \* the boolean a predicate returned
    text,          \* the str a function returned or play_puzzle printed
    steps          \* how many times puzzle_with_move replaced the puzzle

vars == <<puzzle, initial, tile_to_move, moves, pc, op, outcome, verdict, text, steps>>

(***************************************************************************)
(* Characters.                                                             *)
(***************************************************************************)
\* The tile symbols in code-point order: digits before capital letters.
Alphabet ==
    << "0", "1", "2", "3", "4", "5", "6", "7", "8", "9",
       "A", "B", "C", "D", "E", "F", "G", "H", "I", "J", "K", "L", "M",
       "N", "O", "P", "Q", "R", "S", "T", "U", "V", "W", "X", "Y", "Z" >>

Blank == "-"

Newline == "\n"

Space == " "

MinSize == 2

MaxSize == 6

\* Bounds of the exploration: how often a symbol repeats in an initial
\* puzzle, how many moves a caller chains, how many turns a game lasts.
MaxRun == 3

MaxSteps == 2

MaxMoves == 2

Range(s) == { s[i] : i \in 1..Len(s) }

\* Code point order of the tile symbols, as sorted() compares them.
Ord(c) == CHOOSE i \in 1..Len(Alphabet) : Alphabet[i] = c

(***************************************************************************)
(* Built-ins of Python the functions rely on.                              *)
(***************************************************************************)
\* int(len ** 0.5) and int(math.sqrt(len)): the integer part of the root.
isqrt(n) == CHOOSE r \in 0..n : r * r <= n /\ (r + 1) * (r + 1) > n

\* str.index(c): zero-based position of the first occurrence.  Python raises
\* ValueError when c does not occur; Found tells whether it does.
Found(s, c) == \E i \in 1..Len(s) : s[i] = c

index(s, c) ==
    (CHOOSE i \in 1..Len(s) : s[i] = c /\ \A j \in 1..(i - 1) : s[j] # c) - 1

abs(x) == IF x < 0 THEN -x ELSE x

\* sep.join(items): the items concatenated with sep between neighbours.
RECURSIVE join(_, _)
join(sep, items) ==
    IF Len(items) = 0 THEN << >>
    ELSE IF Len(items) = 1 THEN items[1]
    ELSE items[1] \o sep \o join(sep, Tail(items))

\* Iterating a str yields its characters, each a str of length one.
chars(s) == [i \in 1..Len(s) |-> << s[i] >>]

\* puzzle.replace('-', '')
replace_blank(s) == SelectSeq(s, LAMBDA c : c # Blank)

\* sorted(): ascending by code point (insertion into a sorted prefix).
RECURSIVE insert(_, _)
insert(c, s) ==
    IF Len(s) = 0 THEN << c >>
    ELSE IF Ord(c) < Ord(s[1]) THEN << c >> \o s
    ELSE << s[1] >> \o insert(c, Tail(s))

RECURSIVE sorted(_)
sorted(s) == IF Len(s) = 0 THEN << >> ELSE insert(s[1], sorted(Tail(s)))

(***************************************************************************)
(* The functions of the module.                                            *)
(***************************************************************************)
\* puzzle[i:i+size] for i in range(0, len(puzzle), size)
puzzle_rows(p) ==
    LET size == isqrt(Len(p))
        n    == (Len(p) + size - 1) \div size
    IN  [k \in 1..n |->
            SubSeq(p, (k - 1) * size + 1,
                   IF k * size < Len(p) THEN k * size ELSE Len(p))]

\* Variant: a newline after every row, the last one included.
rows_from_puzzle_newline_after_each(p) ==
    join(<< >>, [k \in 1..Len(puzzle_rows(p)) |-> puzzle_rows(p)[k] \o << Newline >>])

rows_from_puzzle(p) == join(<< Newline >>, puzzle_rows(p))

\* Variant: only the hyphen in the last place counts as solved.
is_solved_blank_last_only(p) == p = sorted(replace_blank(p)) \o << Blank >>

is_solved(p) ==
    LET sorted_puzzle == sorted(replace_blank(p)) \o << Blank >>
    IN  \/ p = sorted_puzzle
        \/ p = << Blank >> \o SubSeq(sorted_puzzle, 1, Len(sorted_puzzle) - 1)

\* Both lookups of is_legal_move and puzzle_with_move succeed.
lookups_succeed(p, t) == Found(p, Blank) /\ Found(p, t)

\* Variant: the distance of the two indices is compared, not the columns.
is_legal_move_by_index_distance(p, t) ==
    IF t = Blank THEN FALSE
    ELSE
        LET size      == isqrt(Len(p))
            empty_idx == index(p, Blank)
            tile_idx  == index(p, t)
        IN  abs(tile_idx - empty_idx) = 1 \/ abs(tile_idx - empty_idx) = size

\* Variant: the differences are taken without abs().
is_legal_move_without_abs(p, t) ==
    IF t = Blank THEN FALSE
    ELSE
        LET size      == isqrt(Len(p))
            empty_idx == index(p, Blank)
            tile_idx  == index(p, t)
            row_diff  == (tile_idx \div size) - (empty_idx \div size)
            col_diff  == (tile_idx % size) - (empty_idx % size)
        IN  \/ row_diff = 1 /\ col_diff = 0
            \/ row_diff = 0 /\ col_diff = 1

\* The value returned when no lookup raises.
is_legal_move(p, t) ==
    IF t = Blank THEN FALSE
    ELSE
        LET size      == isqrt(Len(p))
            empty_idx == index(p, Blank)
            tile_idx  == index(p, t)
            row_diff  == abs((tile_idx \div size) - (empty_idx \div size))
            col_diff  == abs((tile_idx % size) - (empty_idx % size))
        IN  \/ row_diff = 1 /\ col_diff = 0
            \/ row_diff = 0 /\ col_diff = 1

\* Variant: puzzle.replace('-', t, 1).replace(t, '-', 1), which moves the
\* tile only when it stands before the empty spot.
puzzle_with_move_by_replace(p, t) ==
    IF t = Blank THEN p
    ELSE
        LET empty_idx == index(p, Blank)
            filled    == [i \in 1..Len(p) |-> IF i = empty_idx + 1 THEN t ELSE p[i]]
            tile_idx  == index(filled, t)
        IN  [i \in 1..Len(p) |-> IF i = tile_idx + 1 THEN Blank ELSE filled[i]]

\* Variant: the tile is copied into the empty spot and stays where it was.
puzzle_with_move_copy_only(p, t) ==
    IF t = Blank THEN p
    ELSE
        LET empty_idx == index(p, Blank)
            tile_idx  == index(p, t)
        IN  [i \in 1..Len(p) |-> IF i = empty_idx + 1 THEN p[tile_idx + 1] ELSE p[i]]

\* The value returned when no lookup raises.
puzzle_with_move(p, t) ==
    IF t = Blank THEN p
    ELSE
        LET empty_idx == index(p, Blank)
            tile_idx  == index(p, t)
        IN  [i \in 1..Len(p) |->
                IF i = empty_idx + 1 THEN p[tile_idx + 1]
                ELSE IF i = tile_idx + 1 THEN p[empty_idx + 1]
                ELSE p[i]]

\* Variant: the leading space is left out.
space_puzzle_without_leading_space(p) == join(<< Space >>, chars(rows_from_puzzle(p)))

space_puzzle(p) == << Space >> \o join(<< Space >>, chars(rows_from_puzzle(p)))

(***************************************************************************)
(* Puzzles the functions are called with.                                  *)
(***************************************************************************)
\* The tiles of an n*n puzzle in ascending order, every symbol d times over.
ascending_tiles(n, d) == [j \in 1..(n * n - 1) |-> Alphabet[((j - 1) \div d) + 2]]

\* The empty spot put at zero-based position b.
with_blank(tiles, b) ==
    SubSeq(tiles, 1, b) \o << Blank >> \o SubSeq(tiles, b + 1, Len(tiles))

Sizes == MinSize..MaxSize

InitialPuzzles ==
    UNION { { with_blank(ascending_tiles(n, d), b) :
                d \in 1..MaxRun, b \in 0..(n * n - 1) } : n \in Sizes }

\* Sequences of moves are explored on the smallest two sizes; on the larger
\* ones a caller makes one move.
DeepSize == MinSize + 1

StepLimit(p) == IF isqrt(Len(p)) <= DeepSize THEN MaxSteps ELSE 1

\* What a caller may name as the tile: a symbol of the puzzle, the hyphen,
\* or a symbol that no puzzle above contains.
Arguments(p) == Range(p) \cup { Blank, Alphabet[1] }

(***************************************************************************)
(* A caller of the functions, holding a current puzzle.  It calls one      *)
(* function (pc = "returned" shows the call's outcome next to its          *)
(* argument), takes the result and goes on.                                *)
(***************************************************************************)
Init ==
    /\ puzzle \in InitialPuzzles
    /\ initial = puzzle
    /\ tile_to_move = Blank
    /\ moves = 0
    /\ pc = "caller"
    /\ op = "none"
    /\ outcome = "return"
    /\ verdict = FALSE
    /\ text = << >>
    /\ steps = 0

CallIsLegalMove(t) ==
    /\ pc = "caller"
    /\ pc' = "returned"
    /\ op' = "is_legal_move"
    /\ tile_to_move' = t
    /\ IF t # Blank /\ ~lookups_succeed(puzzle, t)
       THEN outcome' = "ValueError" /\ verdict' = FALSE
       ELSE outcome' = "return" /\ verdict' = is_legal_move(puzzle, t)
    /\ text' = << >>
    /\ UNCHANGED <<puzzle, initial, moves, steps>>

CallPuzzleWithMove(t) ==
    /\ pc = "caller"
    /\ steps < StepLimit(puzzle)
    /\ pc' = "returned"
    /\ op' = "puzzle_with_move"
    /\ tile_to_move' = t
    /\ verdict' = FALSE
    /\ IF t # Blank /\ ~lookups_succeed(puzzle, t)
       THEN outcome' = "ValueError" /\ text' = << >>
       ELSE outcome' = "return" /\ text' = puzzle_with_move(puzzle, t)
    /\ UNCHANGED <<puzzle, initial, moves, steps>>

CallIsSolved ==
    /\ pc = "caller"
    /\ pc' = "returned"
    /\ op' = "is_solved"
    /\ outcome' = "return"
    /\ verdict' = is_solved(puzzle)
    /\ text' = << >>
    /\ UNCHANGED <<puzzle, initial, tile_to_move, moves, steps>>

CallRowsFromPuzzle ==
    /\ pc = "caller"
    /\ pc' = "returned"
    /\ op' = "rows_from_puzzle"
    /\ outcome' = "return"
    /\ verdict' = FALSE
    /\ text' = rows_from_puzzle(puzzle)
    /\ UNCHANGED <<puzzle, initial, tile_to_move, moves, steps>>

CallSpacePuzzle ==
    /\ pc = "caller"
    /\ pc' = "returned"
    /\ op' = "space_puzzle"
    /\ outcome' = "return"
    /\ verdict' = FALSE
    /\ text' = space_puzzle(puzzle)
    /\ UNCHANGED <<puzzle, initial, tile_to_move, moves, steps>>

\* puzzle = puzzle_with_move(puzzle, tile_to_move): the new value replaces the
\* current one; the value of any other call is only looked at.
TakeResult ==
    /\ pc = "returned"
    /\ pc' = "caller"
    /\ IF op = "puzzle_with_move" /\ outcome = "return"
       THEN puzzle' = text /\ steps' = steps + 1
       ELSE UNCHANGED <<puzzle, steps>>
    /\ op' = "none"
    /\ outcome' = "return"
    /\ verdict' = FALSE
    /\ text' = << >>
    /\ tile_to_move' = Blank
    /\ UNCHANGED <<initial, moves>>

Next ==
    \/ \E t \in Arguments(puzzle) : CallIsLegalMove(t)
    \/ \E t \in Arguments(puzzle) : CallPuzzleWithMove(t)
    \/ CallIsSolved
    \/ CallRowsFromPuzzle
    \/ CallSpacePuzzle
    \/ TakeResult

Spec == Init /\ [][Next]_vars

(***************************************************************************)
(* play_puzzle.                                                            *)
(***************************************************************************)
PlayInit ==
    /\ puzzle \in InitialPuzzles
    /\ initial = puzzle
    /\ tile_to_move = Blank
    /\ moves = 0
    /\ pc = "while"
    /\ op = "none"
    /\ outcome = "return"
    /\ verdict = FALSE
    /\ text = << >>
    /\ steps = 0

\* while not is_solved(puzzle)
WhileTest ==
    /\ pc = "while"
    /\ op' = "is_solved"
    /\ outcome' = "return"
    /\ verdict' = is_solved(puzzle)
    /\ pc' = IF is_solved(puzzle) THEN "solved" ELSE "turn"
    /\ UNCHANGED <<puzzle, initial, tile_to_move, moves, text, steps>>

\* The puzzle is printed, tile_to_move reset and the move counted.
Turn ==
    /\ pc = "turn"
    /\ moves < MaxMoves
    /\ text' = space_puzzle(puzzle)
    /\ tile_to_move' = Blank
    /\ moves' = moves + 1
    /\ pc' = "prompt"
    /\ UNCHANGED <<puzzle, initial, op, outcome, verdict, steps>>

\* while not is_legal_move(puzzle, tile_to_move): a failed lookup ends
\* play_puzzle with the exception, nothing catches it.
PromptTest ==
    /\ pc = "prompt"
    /\ op' = "is_legal_move"
    /\ IF tile_to_move # Blank /\ ~lookups_succeed(puzzle, tile_to_move)
       THEN /\ outcome' = "ValueError"
            /\ verdict' = FALSE
            /\ pc' = "raised"
       ELSE /\ outcome' = "return"
            /\ verdict' = is_legal_move(puzzle, tile_to_move)
            /\ pc' = IF is_legal_move(puzzle, tile_to_move) THEN "apply" ELSE "input"
    /\ UNCHANGED <<puzzle, initial, tile_to_move, moves, text, steps>>

\* tile_to_move = input(...)
Input(t) ==
    /\ pc = "input"
    /\ tile_to_move' = t
    /\ pc' = "prompt"
    /\ UNCHANGED <<puzzle, initial, moves, op, outcome, verdict, text, steps>>

\* puzzle = puzzle_with_move(puzzle, tile_to_move)
Apply ==
    /\ pc = "apply"
    /\ op' = "puzzle_with_move"
    /\ puzzle' = puzzle_with_move(puzzle, tile_to_move)
    /\ steps' = steps + 1
    /\ pc' = "while"
    /\ UNCHANGED <<initial, tile_to_move, moves, outcome, verdict, text>>

\* Solved! and the number of moves are printed.
Announce ==
    /\ pc = "solved"
    /\ text' = space_puzzle(puzzle)
    /\ pc' = "done"
    /\ UNCHANGED <<puzzle, initial, tile_to_move, moves, op, outcome, verdict, steps>>

PlayNext ==
    \/ WhileTest
    \/ Turn
    \/ PromptTest
    \/ \E t \in Arguments(puzzle) : Input(t)
    \/ Apply
    \/ Announce

PlaySpec == PlayInit /\ [][PlayNext]_vars

(***************************************************************************)
(* Vocabulary of the properties.                                           *)
(***************************************************************************)
\* The side N of a puzzle of N*N symbols.
Side(p) == CHOOSE n \in Sizes : n * n = Len(p)

\* Zero-based positions holding c, and the first of them.
Positions(p, c) == { i \in 0..(Len(p) - 1) : p[i + 1] = c }

Position(p, c) == CHOOSE i \in Positions(p, c) : \A j \in Positions(p, c) : i <= j

Count(p, c) == Cardinality(Positions(p, c))

\* The cells one step up, down, left or right of cell j on an n*n board.
Neighbours(j, n) ==
    { i \in 0..(n * n - 1) :
        \/ i = j - n
        \/ i = j + n
        \/ i = j - 1 /\ j % n # 0
        \/ i = j + 1 /\ i % n # 0 }

\* p with the contents of cells i and j exchanged.
Exchanged(p, i, j) ==
    [k \in 1..Len(p) |-> IF k = i + 1 THEN p[j + 1] ELSE IF k = j + 1 THEN p[i + 1] ELSE p[k]]

NonDecreasing(p) ==
    \A i, j \in 1..Len(p) :
        (i < j /\ p[i] # Blank /\ p[j] # Blank) => Ord(p[i]) <= Ord(p[j])

BlankAtAnEnd(p) == p[1] = Blank \/ p[Len(p)] = Blank

Distinct(p) == \A c \in Range(p) : Count(p, c) = 1

Returned(f) == pc = "returned" /\ op = f /\ outcome = "return"

Absent(p, t) == t # Blank /\ t \notin Range(p)

(***************************************************************************)
(* Properties.                                                             *)
(***************************************************************************)
\* C1: for a symbol t of the puzzle, is_legal_move returns true exactly when
\* t is not the hyphen and the cell of t (of its first occurrence, the one
\* str.index finds) is one step up, down, left or right of the empty cell;
\* so never for the hyphen, a diagonal neighbour, or the end of the row
\* above the row the empty cell starts.
C1_LegalIffAdjacent ==
    (Returned("is_legal_move") /\ tile_to_move \in Range(puzzle)) =>
        (verdict <=>
            /\ tile_to_move # Blank
            /\ Position(puzzle, tile_to_move)
                  \in Neighbours(Position(puzzle, Blank), Side(puzzle)))

\* A tile ending a row is refused when the empty cell starts the next row.
C1_Witness ==
    /\ Returned("is_legal_move")
    /\ tile_to_move # Blank
    /\ tile_to_move \in Range(puzzle)
    /\ Position(puzzle, tile_to_move) + 1 = Position(puzzle, Blank)
    /\ Position(puzzle, Blank) % Side(puzzle) = 0
    /\ Side(puzzle) = MaxSize
    /\ ~verdict

\* C2: for a symbol t of the puzzle, puzzle_with_move returns a puzzle of the
\* same length that differs from the argument only in that the (first) cell
\* of t and the empty cell have exchanged their contents, adjacent or not; for
\* the hyphen it returns the argument.
C2_MoveExchanges ==
    (Returned("puzzle_with_move") /\ tile_to_move \in Range(puzzle)) =>
        /\ Len(text) = Len(puzzle)
        /\ IF tile_to_move = Blank
           THEN text = puzzle
           ELSE LET i == Position(puzzle, tile_to_move)
                    e == Position(puzzle, Blank)
                IN  /\ text[i + 1] = Blank
                    /\ text[e + 1] = tile_to_move
                    /\ \A k \in 1..Len(puzzle) :
                          (k # i + 1 /\ k # e + 1) => text[k] = puzzle[k]

\* A tile that is not next to the empty cell has been exchanged with it.
C2_Witness ==
    /\ Returned("puzzle_with_move")
    /\ tile_to_move # Blank
    /\ tile_to_move \in Range(puzzle)
    /\ Position(puzzle, tile_to_move)
          \notin Neighbours(Position(puzzle, Blank), Side(puzzle))
    /\ text # puzzle
    /\ text[Position(puzzle, tile_to_move) + 1] = Blank

\* C3: is_solved returns true exactly when the hyphen is the first or the
\* last symbol and the other symbols, read left to right, never decrease in
\* code point order.
C3_SolvedIffOrderedAndBlankAtEnd ==
    Returned("is_solved") =>
        (verdict <=> (BlankAtAnEnd(puzzle) /\ NonDecreasing(puzzle)))

\* Ascending tiles with the empty cell inside are reported as not solved.
C3_Witness ==
    /\ Returned("is_solved")
    /\ ~verdict
    /\ NonDecreasing(puzzle)
    /\ ~BlankAtAnEnd(puzzle)

\* C4 as claimed: whenever is_legal_move accepts t, moving t twice gives the
\* puzzle back, whether or not symbols repeat.
C4_TwiceIsIdentity ==
    (/\ Returned("puzzle_with_move")
     /\ tile_to_move \in Range(puzzle)
     /\ is_legal_move(puzzle, tile_to_move)) =>
        puzzle_with_move(text, tile_to_move) = puzzle

\* C4 amended: whenever is_legal_move accepts t and t occurs once in the
\* puzzle, moving t twice gives the puzzle back.
C4_TwiceIsIdentityForSingleTile ==
    (/\ Returned("puzzle_with_move")
     /\ tile_to_move \in Range(puzzle)
     /\ is_legal_move(puzzle, tile_to_move)
     /\ Count(puzzle, tile_to_move) = 1) =>
        puzzle_with_move(text, tile_to_move) = puzzle

\* A legal move of a tile that occurs once, in a puzzle with repeated symbols.
C4_Witness ==
    /\ Returned("puzzle_with_move")
    /\ tile_to_move \in Range(puzzle)
    /\ is_legal_move(puzzle, tile_to_move)
    /\ Count(puzzle, tile_to_move) = 1
    /\ ~Distinct(puzzle)
    /\ text # puzzle

\* C5: rows_from_puzzle returns the N rows of N symbols, consecutive slices
\* of the puzzle, with one newline between two rows and none before or after;
\* without the newlines it is the puzzle again.
C5_RowsLayout ==
    Returned("rows_from_puzzle") =>
        LET n == Side(puzzle)
        IN  /\ Len(text) = n * n + n - 1
            /\ \A i \in 1..Len(text) :
                  IF i % (n + 1) = 0
                  THEN text[i] = Newline
                  ELSE text[i] = puzzle[i - (i \div (n + 1))]
            /\ SelectSeq(text, LAMBDA c : c # Newline) = puzzle

\* The rows of a puzzle of the largest size.
C5_Witness ==
    /\ Returned("rows_from_puzzle")
    /\ Side(puzzle) = MaxSize
    /\ Len(SelectSeq(text, LAMBDA c : c = Newline)) = MaxSize - 1

\* C6 as claimed: a call of is_legal_move or puzzle_with_move with a symbol
\* that is not in the puzzle ends in a TileNotFound error raised on purpose.
C6_AbsentTileIsHandled ==
    (/\ pc = "returned"
     /\ op \in { "is_legal_move", "puzzle_with_move" }
     /\ Absent(puzzle, tile_to_move)) =>
        outcome = "TileNotFound"

\* The rendering C7 describes: a space before every symbol, one more space
\* before the first line, newlines between the rows, nothing else.
described_spacing(p) ==
    << Space >> \o
    join(<< Newline >>,
         [k \in 1..Len(puzzle_rows(p)) |->
             join(<< >>, [i \in 1..Len(puzzle_rows(p)[k]) |->
                             << Space, puzzle_rows(p)[k][i] >>])])

\* C7 as claimed: space_puzzle returns the rendering described above.
C7_SpacedAsDescribed ==
    Returned("space_puzzle") => text = described_spacing(puzzle)

\* C7 amended: space_puzzle puts one space before every character of
\* rows_from_puzzle(puzzle), the newlines included, and adds nothing else:
\* the first line starts with a single space and every row but the last
\* ends with a space before its newline.
C7_SpaceBeforeEveryCharacter ==
    Returned("space_puzzle") =>
        LET rows == rows_from_puzzle(puzzle)
        IN  /\ Len(text) = 2 * Len(rows)
            /\ \A i \in 1..Len(rows) :
                  text[2 * i - 1] = Space /\ text[2 * i] = rows[i]

\* A rendering with a space between a row's last symbol and the newline.
C7_Witness ==
    /\ Returned("space_puzzle")
    /\ \E i \in 2..(Len(text) - 1) :
          text[i] = Space /\ text[i + 1] = Newline /\ text[i - 1] \in Range(puzzle)

\* C9: whatever moves a caller makes with symbols of the puzzle, legal or
\* not, the puzzle keeps its length N*N, has one hyphen and has the symbols
\* of the initial puzzle, each as often.
C9_MovesKeepThePuzzleValid ==
    /\ Len(puzzle) = Len(initial)
    /\ \E n \in Sizes : Len(puzzle) = n * n
    /\ Count(puzzle, Blank) = 1
    /\ \/ puzzle = initial
       \/ \A c \in Range(puzzle) \cup Range(initial) :
             Count(puzzle, c) = Count(initial, c)

\* Two moves made, the second of a tile not next to the empty cell.
C9_Witness ==
    /\ steps = 1
    /\ Returned("puzzle_with_move")
    /\ tile_to_move \in Range(puzzle) \ { Blank }
    /\ ~is_legal_move(puzzle, tile_to_move)
    /\ puzzle # initial
    /\ text # initial

\* C8: in play_puzzle the puzzle changes only where the accepted tile is
\* applied, each change exchanges the empty cell with a cell one step up,
\* down, left or right of it, Solved is announced only for a solved puzzle,
\* and the number of moves reported is the number of moves applied.
C8_PlayLoop ==
    /\ [](pc \in { "solved", "done" } => is_solved(puzzle))
    /\ [](pc = "done" => moves = steps)
    /\ [][puzzle' # puzzle => pc = "apply"]_vars
    /\ [][pc = "apply" =>
            /\ op = "is_legal_move" /\ outcome = "return" /\ verdict
            /\ \E i \in Neighbours(Position(puzzle, Blank), Side(puzzle)) :
                  /\ puzzle[i + 1] = tile_to_move
                  /\ puzzle' = Exchanged(puzzle, i, Position(puzzle, Blank))]_vars

\* A game of two moves has ended.
C8_Witness == pc = "done" /\ moves = 2 /\ steps = 2 /\ puzzle # initial

\* C10 as claimed: in every puzzle that is not solved, is_legal_move accepts
\* some symbol of the puzzle, whether or not symbols repeat.
C10_SomeMoveIsLegal ==
    ~is_solved(puzzle) => \E t \in Range(puzzle) : is_legal_move(puzzle, t)

\* C10 amended: in every puzzle that is not solved and whose symbols are all
\* different, is_legal_move accepts some symbol of the puzzle.
C10_SomeMoveIsLegalIfDistinct ==
    (~is_solved(puzzle) /\ Distinct(puzzle)) =>
        \E t \in Range(puzzle) : is_legal_move(puzzle, t)

\* play_puzzle asks for a tile of an unsolved puzzle of different symbols,
\* the empty cell in the last place.
C10_Witness ==
    /\ pc = "input"
    /\ ~is_solved(puzzle)
    /\ Distinct(puzzle)
    /\ puzzle[Len(puzzle)] = Blank
    /\ Side(puzzle) > MinSize

====
